---- MODULE Spec2Model ----
(***************************************************************************)
(* State-machine model of sillm/training/trainer.py: TrainableLLM.evaluate *)
(* and TrainableLLM.train, and of sillm/gemma.py: rms_norm and the forward *)
(* pass Model.__call__.  Every action is one stretch of a method's code;   *)
(* pc is the position of the trainer's thread of control, dpc that of the  *)
(* decoder's.  Spec runs the trainer, DecoderSpec the decoder.             *)
(***************************************************************************)
EXTENDS Integers, Sequences, FiniteSets, TLC

(* ------------------------------ bounds --------------------------------- *)
MaxEpochs == 2
MaxIterations == 2
LenTraining == 3
MaxSteps == 3
MaxReportSteps == 2
MaxEvalSteps == 2
ValDatasetBatches == 1
MaxNumBatches == 3
MaxDatasetBatches == 2
NumLayers == 2
StepTicks == 1
EvalTicks == 1
SystemMemory == 100
MaxSeqLen == 3
MaxCalls == 4

OptimizerNames == {"adam", "AdamW", "sgdx"}
\* what the loss capability returns for a training batch
StepOutcomes == {[loss_value |-> 1, num_tokens |-> 2, reward |-> [nil |-> TRUE]],
                 [loss_value |-> 2, num_tokens |-> 1, reward |-> [v |-> <<1, 3>>]]}
MemValues == {50, 90, 95}
\* what one evaluation batch returns as loss and takes as device memory
EvalOutcomes == {[loss_value |-> 1, mem |-> 10],
                 [loss_value |-> 2, mem |-> 95]}
BatchSizes == {1, 2}
\* what a capability of the step raises: from the loss and gradient
\* computation, or from the optimizer update
StepErrors == {"LossError", "UpdateError"}
ValidationSamples == {1, 2}

(* ------------------------------ helpers -------------------------------- *)
None == "None"
\* the absent value of a record-valued variable
Nil == [nil |-> TRUE]
\* nan, as a fraction
NaN == [num |-> 0, den |-> 0]
\* a result whose computation has not been carried out yet
Lazy == [lazy |-> TRUE]

Max(a, b) == IF a >= b THEN a ELSE b
Min(a, b) == IF a <= b THEN a ELSE b

RECURSIVE SumSeq(_)
SumSeq(s) == IF s = <<>> THEN 0 ELSE Head(s) + SumSeq(Tail(s))

RECURSIVE GCD(_, _)
GCD(a, b) == IF b = 0 THEN a ELSE GCD(b, a % b)

\* a quotient of two naturals as a reduced fraction; x / 0 has no value
Frac(a, b) ==
    IF b = 0 THEN NaN
    ELSE LET g == GCD(a, b) IN [num |-> a \div g, den |-> b \div g]

\* np.mean of a list of scalars: nan for the empty list
Mean(s) == IF Len(s) = 0 THEN NaN ELSE Frac(SumSeq(s), Len(s))

\* str.lower() on the optimizer names the model draws
Lower(s) ==
    CASE s = "AdamW" -> "adamw"
      [] s = "Adam" -> "adam"
      [] s = "ADAM" -> "adam"
      [] s = "SGDX" -> "sgdx"
      [] OTHER -> s

\* a mis-selection that falls back to Adam for an unknown name
OptimizerFor_default(t) ==
    IF t = "adamw" THEN "AdamW" ELSE "Adam"

\* the if/elif/else that picks the optimizer from the lower-cased name
OptimizerFor(t) ==
    IF t = "adam" THEN "Adam"
    ELSE IF t = "adamw" THEN "AdamW"
    ELSE "ValueError"

\* iterations with 0 left as it is
NumIterations_asgiven(iters, len, bs) == iters

\* iterations == 0 means one pass over the training set
NumIterations(iters, len, bs) ==
    IF iters = 0 THEN len \div bs ELSE iters

\* validation_batches = validation_samples // batch_size
ValidationBatches(samples, bs) == samples \div bs

\* grad_checkpoint leaving compiled_step alone
CompiledEffective_asgiven(cs, gc) == cs

\* grad_checkpoint forces compiled_step
CompiledEffective(cs, gc) == cs \/ gc

\* a report due at n % report_steps == 0
ReportDue_zero(k, rs) == k % rs = 0

\* (n + 1) % report_steps == 0
ReportDue(k, rs) == (k + 1) % rs = 0

\* the evaluation cadence without the first step
EvalDue_nofirst(k, es) == (k + 1) % es = 0

\* n == 0 or (n + 1) % eval_steps == 0
EvalDue(k, es) == k = 0 \/ (k + 1) % es = 0

\* a threshold test that also fires at exactly 0.9
HighMemory_inclusive(peak, system) == 10 * peak >= 9 * system

\* peak_memory / system_memory > 0.9
HighMemory(peak, system) == 10 * peak > 9 * system

\* a loss call that also touches the parameters
LossParams_update(p) == p + 1

\* the loss capability reads the parameters and leaves them as they are
LossParams(p) == p

\* zip() that ignores the range and runs the dataset out
EvalHasNext_dataset(i, num_batches, avail) == i < avail

\* zip(range(num_batches), dataset.iterate_batches(batch_size)): the range is
\* asked first, then the dataset; the loop ends when either is exhausted
EvalHasNext(i, num_batches, avail) == i < num_batches /\ i < avail

\* a step whose results are read without mx.eval
AfterUpdate_noeval == "record"

\* mx.eval(loss_value, reward, num_tokens) follows the update of the step
AfterUpdate == "materialize"

\* an exception caught in the loop, the step tried again
OnRaise_retry == "loop"

\* no try/except encloses the step: an exception leaves train()
OnRaise == "raised"

\* the accumulator after a step: rewards = reward for the first reward since
\* the last report, np.vstack([rewards, reward]) for the later ones.  An
\* array is its number of axes and its rows; a vector is an array of one row.
Accumulate(acc, reward) ==
    IF reward = Nil THEN acc
    ELSE IF acc = Nil THEN [ndim |-> 1, rows |-> <<reward.v>>]
    ELSE [ndim |-> 2, rows |-> Append(acc.rows, reward.v)]

\* np.mean(rewards, axis=0): the mean over the first axis, which for a
\* vector is the mean of its entries and for a matrix the vector of the
\* means of its columns
MeanAxis0(a) ==
    IF a.ndim = 1
    THEN [ndim |-> 0, v |-> <<Mean(a.rows[1])>>]
    ELSE [ndim |-> 1,
          v |-> [d \in 1 .. Len(a.rows[1]) |->
                    Mean([k \in 1 .. Len(a.rows) |-> a.rows[k][d]])]]

\* an accumulator that is not emptied at the report
ResetLosses_keep(l) == l

\* losses = [] after a report
ResetLosses(l) == <<>>

(* ------------------------------ state ---------------------------------- *)
VARIABLES
    pc,                 \* position of the thread of control
    args,               \* the arguments of the train() call
    error,              \* exception raised out of train(), or None
    iterations, validation_batches, optimizer_type, optimizer, compiled_step,
    layers_checkpointed,\* layers whose forward is wrapped by nn.utils.checkpoint
    warnings,           \* "requires compiled step function" warnings logged
    step_defined,       \* the compiled step closure exists
    losses, intv_tokens, start, stop,
    epoch, iter, n, batch, result, peak_memory,
    params, opt_state,  \* TrainingState: versions of model and optimizer state
    metal_peak,         \* the device's peak-memory counter
    clock,              \* time.perf_counter()
    iter_calls,         \* calls of dataset_training.iterate_batches(train=True)
    ev,                 \* frame of the running evaluate() call
    val_loss,
    \* history of the run, kept for the properties
    updates, lossHist, stepLog, pathLog, batchLog, stepBegin, stepEnd, tokSteps,
    stepWarns, stepResets,
    stepMem,            \* device memory taken by the training work of step n
    rewards,            \* the reward accumulator
    rewardHist,         \* the reward of every step so far, Nil where there was none
    events,             \* what step n has done so far, in order
    reportLog, lastReport, reportCbLog, lastReportCb,
    evalLog, lastEval, evalCbLog, lastEvalCb,
    \* gemma.py
    dpc,                \* position of the decoder's thread of control
    model,              \* the constructed Model: n_layers and the dtypes
    heap,               \* the cache lists that exist, by identity
    fr,                 \* frame of the running Model.__call__
    ret,                \* what the last Model.__call__ returned
    norm                \* what the last direct rms_norm call returned

confVars == <<args, error, iterations, validation_batches, optimizer_type,
              optimizer, compiled_step, layers_checkpointed, warnings, step_defined>>
accVars == <<losses, intv_tokens, tokSteps, rewards, start, stop>>
stepVars == <<epoch, iter, n, batch, result, peak_memory, stepWarns, stepResets, stepMem>>
devVars == <<params, opt_state, updates, metal_peak, clock, iter_calls>>
histVars == <<lossHist, rewardHist, stepLog, pathLog, batchLog, stepBegin, stepEnd>>
repVars == <<reportLog, lastReport, reportCbLog, lastReportCb>>
evalVars == <<ev, val_loss, evalLog, lastEval, evalCbLog, lastEvalCb>>

decVars == <<dpc, model, heap, fr, ret, norm>>
trainVars == <<pc, confVars, accVars, stepVars, devVars, histVars, repVars, evalVars, events>>

vars == <<trainVars, decVars>>

Layers == 1 .. NumLayers

Init ==
    /\ pc = "idle"
    /\ args = Nil
    /\ error = None
    /\ iterations = 0
    /\ validation_batches = 0
    /\ optimizer_type = None
    /\ optimizer = None
    /\ compiled_step = FALSE
    /\ layers_checkpointed = {}
    /\ warnings = 0
    /\ step_defined = FALSE
    /\ losses = <<>>
    /\ intv_tokens = 0
    /\ start = 0
    /\ stop = 0
    /\ epoch = 0
    /\ iter = 0
    /\ n = 0
    /\ batch = Nil
    /\ result = Nil
    /\ peak_memory = 0
    /\ params = 0
    /\ opt_state = 0
    /\ metal_peak = 0
    /\ clock = 0
    /\ iter_calls = 0
    /\ ev = Nil
    /\ val_loss = Nil
    /\ updates = 0
    /\ lossHist = <<>>
    /\ stepLog = <<>>
    /\ pathLog = <<>>
    /\ batchLog = <<>>
    /\ stepBegin = <<>>
    /\ stepEnd = <<>>
    /\ tokSteps = {}
    /\ stepWarns = 0
    /\ stepResets = 0
    /\ stepMem = 0
    /\ rewards = Nil
    /\ rewardHist = <<>>
    /\ events = <<>>
    /\ reportLog = <<>>
    /\ lastReport = Nil
    /\ reportCbLog = <<>>
    /\ lastReportCb = Nil
    /\ evalLog = <<>>
    /\ lastEval = Nil
    /\ evalCbLog = <<>>
    /\ lastEvalCb = Nil
    /\ dpc = "new"
    /\ model = Nil
    /\ heap = <<>>
    /\ fr = Nil
    /\ ret = Nil
    /\ norm = Nil

(* --------------------------- train(): set-up --------------------------- *)
\* train() is called: iterations and validation_batches are computed, the
\* optimizer is built from the lower-cased name, or ValueError is raised
Train_Call ==
    /\ pc = "idle"
    /\ \E ot \in OptimizerNames, cs \in BOOLEAN, gc \in BOOLEAN,
          ep \in 1 .. MaxEpochs, it \in 0 .. MaxIterations,
          bs \in BatchSizes, rs \in 1 .. MaxReportSteps,
          es \in 1 .. MaxEvalSteps, rcb \in BOOLEAN, ecb \in BOOLEAN,
          vs \in ValidationSamples :
        /\ ep * NumIterations(it, LenTraining, bs) <= MaxSteps
        /\ args' = [optimizer_type |-> ot, compiled_step |-> cs,
                    grad_checkpoint |-> gc, epochs |-> ep, iterations |-> it,
                    len_training |-> LenTraining, batch_size |-> bs,
                    report_steps |-> rs, report_callback |-> rcb,
                    eval_steps |-> es, eval_callback |-> ecb,
                    validation_samples |-> vs, val_avail |-> ValDatasetBatches]
        /\ iterations' = NumIterations(it, LenTraining, bs)
        /\ validation_batches' = ValidationBatches(vs, bs)
        /\ optimizer_type' = Lower(ot)
        /\ IF OptimizerFor(Lower(ot)) = "ValueError"
           THEN /\ optimizer' = None
                /\ error' = "ValueError"
                /\ pc' = "raised"
           ELSE /\ optimizer' = OptimizerFor(Lower(ot))
                /\ error' = None
                /\ pc' = "prepare"
    /\ UNCHANGED <<compiled_step, layers_checkpointed, warnings, step_defined>>
    /\ UNCHANGED <<accVars, stepVars, devVars, histVars, repVars, evalVars, decVars>>
    /\ UNCHANGED events

\* gradient checkpointing, the compiled step closure, the accumulators and
\* the interval timer
Train_Prepare ==
    /\ pc = "prepare"
    /\ warnings' = IF args.grad_checkpoint /\ ~args.compiled_step
                   THEN warnings + 1 ELSE warnings
    /\ compiled_step' = CompiledEffective(args.compiled_step, args.grad_checkpoint)
    /\ layers_checkpointed' = IF args.grad_checkpoint THEN Layers ELSE {}
    /\ step_defined' = compiled_step'
    /\ losses' = <<>>
    /\ rewards' = Nil
    /\ intv_tokens' = 0
    /\ start' = clock
    /\ epoch' = 0
    /\ iter' = 0
    /\ pc' = "loop"
    /\ UNCHANGED <<args, error, iterations, validation_batches, optimizer_type, optimizer>>
    /\ UNCHANGED <<tokSteps, stop, n, batch, result, peak_memory, stepWarns, stepResets, stepMem>>
    /\ UNCHANGED <<devVars, histVars, repVars, evalVars, decVars>>
    /\ UNCHANGED events

(* --------------------------- train(): the loop ------------------------- *)
\* n = epoch * iterations + iter; a new iterate_batches(train=True) generator
\* is created and its first batch is taken
DrawBatch ==
    /\ pc = "loop"
    /\ epoch < args.epochs
    /\ iter < iterations
    /\ n' = epoch * iterations + iter
    /\ iter_calls' = iter_calls + 1
    /\ batch' = [gen |-> iter_calls + 1, pos |-> 0]
    /\ result' = Nil
    /\ stepWarns' = 0
    /\ stepResets' = 0
    /\ stepMem' = 0
    /\ events' = <<"draw">>
    /\ stepLog' = Append(stepLog, n')
    /\ batchLog' = Append(batchLog, batch')
    /\ stepBegin' = Append(stepBegin, clock)
    /\ lastReport' = Nil
    /\ lastReportCb' = Nil
    /\ lastEval' = Nil
    /\ lastEvalCb' = Nil
    /\ pc' = "step"
    /\ UNCHANGED <<decVars, confVars, accVars, epoch, iter, peak_memory>>
    /\ UNCHANGED <<params, opt_state, updates, metal_peak, clock>>
    /\ UNCHANGED <<lossHist, rewardHist, pathLog, stepEnd, reportLog, reportCbLog>>
    /\ UNCHANGED <<ev, val_loss, evalLog, evalCbLog>>

\* the inner range(iterations) is exhausted: next epoch
EpochEnd ==
    /\ pc = "loop"
    /\ epoch < args.epochs
    /\ iter = iterations
    /\ epoch' = epoch + 1
    /\ iter' = 0
    /\ UNCHANGED <<decVars, pc, confVars, accVars, n, batch, result, peak_memory, stepWarns, stepResets, stepMem>>
    /\ UNCHANGED <<devVars, histVars, repVars, evalVars>>
    /\ UNCHANGED events

\* range(epochs) is exhausted: train() returns
Train_Done ==
    /\ pc = "loop"
    /\ epoch = args.epochs
    /\ pc' = "done"
    /\ UNCHANGED <<decVars, confVars, accVars, stepVars, devVars, histVars, repVars, evalVars>>
    /\ UNCHANGED events

\* step(batch): loss and gradient, then optimizer.update, inside the closure
Step_Compiled ==
    /\ pc = "step"
    /\ compiled_step
    /\ step_defined
    /\ result' = Lazy
    /\ params' = params + 1
    /\ opt_state' = opt_state + 1
    /\ updates' = updates + 1
    /\ pathLog' = Append(pathLog, "compiled")
    /\ events' = events \o <<"grad", "update">>
    /\ pc' = AfterUpdate
    /\ UNCHANGED <<decVars, confVars, accVars, epoch, iter, n, batch, peak_memory, stepWarns, stepResets, stepMem>>
    /\ UNCHANGED <<metal_peak, clock, iter_calls>>
    /\ UNCHANGED <<lossHist, rewardHist, stepLog, batchLog, stepBegin, stepEnd, repVars, evalVars>>

\* loss_value_and_grad(*batch), then optimizer.update(self.model, grad)
Step_Eager ==
    /\ pc = "step"
    /\ ~compiled_step
    /\ result' = Lazy
    /\ params' = params + 1
    /\ opt_state' = opt_state + 1
    /\ updates' = updates + 1
    /\ pathLog' = Append(pathLog, "eager")
    /\ events' = events \o <<"grad", "update">>
    /\ pc' = AfterUpdate
    /\ UNCHANGED <<decVars, confVars, accVars, epoch, iter, n, batch, peak_memory, stepWarns, stepResets, stepMem>>
    /\ UNCHANGED <<metal_peak, clock, iter_calls>>
    /\ UNCHANGED <<lossHist, rewardHist, stepLog, batchLog, stepBegin, stepEnd, repVars, evalVars>>

\* step(batch), loss_value_and_grad(*batch) or optimizer.update raises: nothing
\* of the step is applied and the exception goes where OnRaise says
Step_Raise ==
    /\ pc = "step"
    /\ \E x \in StepErrors : error' = x
    /\ pc' = OnRaise
    /\ UNCHANGED <<args, iterations, validation_batches, optimizer_type, optimizer>>
    /\ UNCHANGED <<compiled_step, layers_checkpointed, warnings, step_defined>>
    /\ UNCHANGED <<accVars, stepVars, devVars, histVars, repVars, evalVars, decVars>>
    /\ UNCHANGED events

\* mx.eval(loss_value, reward, num_tokens): the step's work is carried out,
\* taking time and device memory, and the scalars get their values
Materialize ==
    /\ pc = "materialize"
    /\ \E o \in StepOutcomes, m \in MemValues :
        /\ result' = o
        /\ metal_peak' = Max(metal_peak, m)
        /\ stepMem' = m
    /\ clock' = clock + StepTicks
    /\ events' = Append(events, "materialize")
    /\ pc' = "record"
    /\ UNCHANGED <<decVars, confVars, accVars, epoch, iter, n, batch, peak_memory, stepWarns, stepResets>>
    /\ UNCHANGED <<params, opt_state, updates, iter_calls>>
    /\ UNCHANGED <<histVars, repVars, evalVars>>

\* losses.append(loss_value.item()); intv_tokens += num_tokens.item()
Record ==
    /\ pc = "record"
    /\ losses' = Append(losses, result.loss_value)
    /\ intv_tokens' = intv_tokens + result.num_tokens
    /\ tokSteps' = tokSteps \cup {n}
    /\ lossHist' = Append(lossHist, result.loss_value)
    /\ rewards' = Accumulate(rewards, result.reward)
    /\ rewardHist' = Append(rewardHist, result.reward)
    /\ stepEnd' = Append(stepEnd, clock)
    /\ events' = Append(events, "extract")
    /\ pc' = "memory"
    /\ UNCHANGED <<decVars, confVars, start, stop, stepVars, devVars>>
    /\ UNCHANGED <<stepLog, pathLog, batchLog, stepBegin, repVars, evalVars>>

\* get_peak_memory(), the warning above 0.9 of system memory, reset_peak_memory()
MemoryCheck ==
    /\ pc = "memory"
    /\ peak_memory' = metal_peak
    /\ stepWarns' = IF HighMemory(metal_peak, SystemMemory)
                    THEN stepWarns + 1 ELSE stepWarns
    /\ metal_peak' = 0
    /\ stepResets' = stepResets + 1
    /\ events' = events \o <<"memory", "peak_reset">>
    /\ pc' = "report"
    /\ UNCHANGED <<decVars, confVars, accVars, epoch, iter, n, batch, result, stepMem>>
    /\ UNCHANGED <<params, opt_state, updates, clock, iter_calls>>
    /\ UNCHANGED <<histVars, repVars, evalVars>>

\* the training report: mean loss, tok/sec, report_callback, reset
Report ==
    /\ pc = "report"
    /\ ReportDue(n, args.report_steps)
    /\ stop' = clock
    /\ lastReport' = [step |-> n + 1,
                      train_loss |-> Mean(losses),
                      tokens |-> intv_tokens,
                      start |-> start,
                      stop |-> clock,
                      tok_per_sec |-> Frac(intv_tokens, clock - start),
                      reward |-> IF rewards # Nil THEN MeanAxis0(rewards) ELSE Nil,
                      tokSteps |-> tokSteps]
    /\ reportLog' = Append(reportLog, n + 1)
    /\ IF args.report_callback
       THEN /\ reportCbLog' = Append(reportCbLog, n + 1)
            /\ lastReportCb' = [step |-> n + 1, train_loss |-> Mean(losses)]
       ELSE UNCHANGED <<reportCbLog, lastReportCb>>
    /\ losses' = ResetLosses(losses)
    /\ rewards' = Nil
    /\ intv_tokens' = 0
    /\ tokSteps' = {}
    /\ start' = clock
    /\ events' = events \o (IF args.report_callback THEN <<"report", "report_cb">>
                           ELSE <<"report">>)
    /\ pc' = "eval"
    /\ UNCHANGED <<decVars, confVars, stepVars, devVars, histVars, evalVars>>

\* no report is due at this step
Report_Skip ==
    /\ pc = "report"
    /\ ~ReportDue(n, args.report_steps)
    /\ pc' = "eval"
    /\ UNCHANGED <<decVars, confVars, accVars, stepVars, devVars, histVars, repVars, evalVars>>
    /\ UNCHANGED events

\* the end of the loop body: the step's locals are dead
NextIteration ==
    /\ iter' = iter + 1
    /\ batch' = Nil
    /\ result' = Nil
    /\ peak_memory' = 0
    /\ stepMem' = 0
    /\ val_loss' = Nil
    /\ pc' = "loop"

\* stop = perf_counter(); self.evaluate(dataset_validation, ...) is entered
Eval_Start ==
    /\ pc = "eval"
    /\ EvalDue(n, args.eval_steps)
    /\ stop' = clock
    /\ ev' = [caller |-> "train", num_batches |-> validation_batches,
              avail |-> args.val_avail, i |-> 0, losses |-> <<>>,
              loss_calls |-> 0, returned |-> <<>>, params_before |-> params,
              opt_before |-> opt_state, updates_before |-> updates]
    /\ evalLog' = Append(evalLog, [step |-> n + 1, num_batches |-> validation_batches])
    /\ events' = Append(events, "eval")
    /\ pc' = "evaluate"
    /\ UNCHANGED <<decVars, confVars, losses, intv_tokens, tokSteps, rewards, start, stepVars, devVars>>
    /\ UNCHANGED <<histVars, repVars, val_loss, lastEval, evalCbLog, lastEvalCb>>

\* no evaluation is due at this step
Eval_Skip ==
    /\ pc = "eval"
    /\ ~EvalDue(n, args.eval_steps)
    /\ NextIteration
    /\ UNCHANGED <<decVars, confVars, accVars, epoch, n, stepWarns, stepResets>>
    /\ UNCHANGED <<devVars, histVars, repVars>>
    /\ UNCHANGED <<ev, evalLog, lastEval, evalCbLog, lastEvalCb>>
    /\ UNCHANGED events

\* after evaluate() returned: the timer restarts, the validation lines are
\* written, eval_callback is invoked, the timer restarts again
Eval_Finish ==
    /\ pc = "evalfinish"
    /\ start' = clock
    /\ IF args.eval_callback
       THEN /\ evalCbLog' = Append(evalCbLog, n + 1)
            /\ lastEvalCb' = [step |-> n + 1, val_loss |-> val_loss]
       ELSE UNCHANGED <<evalCbLog, lastEvalCb>>
    /\ events' = IF args.eval_callback THEN Append(events, "eval_cb") ELSE events
    /\ NextIteration
    /\ UNCHANGED <<decVars, confVars, losses, intv_tokens, tokSteps, rewards, stop>>
    /\ UNCHANGED <<epoch, n, stepWarns, stepResets, devVars, histVars, repVars>>
    /\ UNCHANGED <<ev, evalLog, lastEval>>

(* ------------------------------ evaluate() ----------------------------- *)
\* evaluate(dataset, batch_size, num_batches) called by the user
Evaluate_Call ==
    /\ pc = "idle"
    /\ \E nb \in 0 .. MaxNumBatches, av \in 0 .. MaxDatasetBatches :
        ev' = [caller |-> "direct", num_batches |-> nb, avail |-> av, i |-> 0,
               losses |-> <<>>, loss_calls |-> 0, returned |-> <<>>,
               params_before |-> params, opt_before |-> opt_state,
               updates_before |-> updates]
    /\ pc' = "evaluate"
    /\ UNCHANGED <<decVars, confVars, accVars, stepVars, devVars, histVars, repVars>>
    /\ UNCHANGED <<val_loss, evalLog, lastEval, evalCbLog, lastEvalCb>>
    /\ UNCHANGED events

\* one turn of the loop: the next batch, self.loss(*batch), losses.append
Evaluate_Batch ==
    /\ pc = "evaluate"
    /\ EvalHasNext(ev.i, ev.num_batches, ev.avail)
    /\ \E o \in EvalOutcomes :
        /\ ev' = [ev EXCEPT !.i = @ + 1, !.losses = Append(@, o.loss_value),
                            !.loss_calls = @ + 1,
                            !.returned = Append(@, o.loss_value)]
        /\ metal_peak' = Max(metal_peak, o.mem)
    /\ params' = LossParams(params)
    /\ clock' = clock + EvalTicks
    /\ UNCHANGED <<decVars, pc, confVars, accVars, stepVars, opt_state, updates, iter_calls>>
    /\ UNCHANGED <<histVars, repVars, val_loss, evalLog, lastEval, evalCbLog, lastEvalCb>>
    /\ UNCHANGED events

\* the loop is over: return np.mean(losses)
Evaluate_Return ==
    /\ pc = "evaluate"
    /\ ~EvalHasNext(ev.i, ev.num_batches, ev.avail)
    /\ val_loss' = Mean(ev.losses)
    /\ lastEval' = [caller |-> ev.caller,
                    step |-> IF ev.caller = "train" THEN n + 1 ELSE 0,
                    num_batches |-> ev.num_batches, avail |-> ev.avail,
                    drawn |-> ev.i, loss_calls |-> ev.loss_calls,
                    returned |-> ev.returned, val_loss |-> Mean(ev.losses),
                    params_before |-> ev.params_before, params_after |-> params,
                    opt_before |-> ev.opt_before, opt_after |-> opt_state,
                    updates_before |-> ev.updates_before, updates_after |-> updates]
    /\ ev' = Nil
    /\ pc' = IF ev.caller = "train" THEN "evalfinish" ELSE "evaluated"
    /\ UNCHANGED <<decVars, confVars, accVars, stepVars, devVars, histVars, repVars>>
    /\ UNCHANGED <<evalLog, evalCbLog, lastEvalCb>>
    /\ UNCHANGED events

Next ==
    \/ Train_Call
    \/ Train_Prepare
    \/ DrawBatch
    \/ EpochEnd
    \/ Train_Done
    \/ Step_Compiled
    \/ Step_Eager
    \/ Step_Raise
    \/ Materialize
    \/ Record
    \/ MemoryCheck
    \/ Report
    \/ Report_Skip
    \/ Eval_Start
    \/ Eval_Skip
    \/ Eval_Finish
    \/ Evaluate_Call
    \/ Evaluate_Batch
    \/ Evaluate_Return

Spec == Init /\ [][Next]_vars

\* the single thread of control keeps running until the method returns or raises
FairSpec == Init /\ [][Next]_vars /\ WF_vars(Next)

(* ------------------------- gemma.py: the decoder ----------------------- *)
Dtypes == {"float16", "bfloat16", "float32"}
NormWeights == {0, 1}
\* the value create_additive_causal_mask puts above the diagonal (-1e9)
MaskValue == -1000000000

\* x.astype(dtype)
AsType(x, dtype) == [x EXCEPT !.dtype = dtype]

\* the dtype of a product of two arrays
Promote(a, b) == IF a = b THEN a ELSE "float32"

\* rms_norm(x, weight, eps): x is cast to float32 and normalised there; the
\* product is (1.0 + weight) * x.astype(weight.dtype)
rms_norm(x, weight) ==
    LET x32 == AsType(x, "float32")
        scale == [dtype |-> weight.dtype, value |-> 1 + weight.value]
        cast == AsType(x32, weight.dtype)
    IN  [compute |-> x32.dtype,
         dtype |-> Promote(scale.dtype, cast.dtype),
         scale |-> scale.value]

\* a mask built for every sequence length
NeedsMask_always(L) == L >= 1

\* a forward pass that never builds a mask
NeedsMask_never(L) == FALSE

\* if h.shape[1] > 1
NeedsMask(L) == L > 1

\* nn.MultiHeadAttention.create_additive_causal_mask(L).astype(dtype):
\* row i, column j holds -1e9 where i < j and 0 elsewhere
CausalMask(L, dtype) ==
    [size |-> L, dtype |-> dtype,
     m |-> [i \in 1 .. L |-> [j \in 1 .. L |-> IF i < j THEN MaskValue ELSE 0]]]

\* every layer reading and writing the first cache entry
CacheIndex_first(e) == 1

\* layer e reads cache[e] and writes cache[e]
CacheIndex(e) == e

\* cache = [None] * len(self.layers)
EmptyCache(nl) == [i \in 1 .. nl |-> Nil]

\* the positions whose keys and values a cache entry holds
CachedKeys(c) == IF c = Nil THEN <<>> ELSE c.keys

\* layer(h, mask, cache[e]) of layer e on L new positions: the attention
\* appends the new positions' keys to the entry's and lets new position i
\* attend to every cached position and to the new positions the mask allows
\* (all of them without a mask).  The entry records which layers produced
\* it and, per position, the positions attended.
LayerCall(e, L, mask, c) ==
    LET old == CachedKeys(c)
        new == [j \in 1 .. L |-> Len(old) + j - 1]
        allowed(i) == IF mask = Nil THEN 1 .. L
                      ELSE {j \in 1 .. L : mask.m[i][j] = 0}
        att == [i \in 1 .. L |->
                   {old[k] : k \in 1 .. Len(old)} \cup {new[j] : j \in allowed(i)}]
    IN  [by |-> (IF c = Nil THEN <<>> ELSE c.by) \o <<e>>,
         keys |-> old \o new,
         att |-> (IF c = Nil THEN <<>> ELSE c.att) \o att]

\* the positions a cache list holds
CacheLen(list) == Len(CachedKeys(list[1]))

\* Model.__init__: n_layers decoder layers; the embedding table and the
\* final norm's weight have the dtypes of the loaded weights
Model_Init ==
    /\ dpc = "new"
    /\ \E nl \in 1 .. NumLayers, dt \in Dtypes, wdt \in Dtypes :
        model' = [n_layers |-> nl, dtype |-> dt, norm_dtype |-> wdt, calls |-> 0]
    /\ dpc' = "idle"
    /\ UNCHANGED <<heap, fr, ret, norm, trainVars>>

\* Model.__call__(inputs, cache) up to the layer loop: the mask for a
\* sequence longer than 1, a fresh cache list when none is given.  A cache
\* the caller kept is passed with one new token.
Forward_Call ==
    /\ dpc \in {"idle", "returned"}
    /\ model.calls < MaxCalls
    /\ \E L \in 1 .. MaxSeqLen, given \in 0 .. Len(heap) :
        /\ given # 0 => L = 1 /\ CacheLen(heap[given]) + L <= MaxSeqLen
        /\ LET mask == IF NeedsMask(L) THEN CausalMask(L, model.dtype) ELSE Nil
               cache == IF given = 0 THEN Len(heap) + 1 ELSE given
           IN  /\ heap' = IF given = 0
                          THEN Append(heap, EmptyCache(model.n_layers))
                          ELSE heap
               /\ fr' = [L |-> L, mask |-> mask, given |-> given, cache |-> cache,
                         e |-> 1, masks |-> <<>>, incoming |-> heap'[cache]]
    /\ model' = [model EXCEPT !.calls = @ + 1]
    /\ dpc' = "layers"
    /\ UNCHANGED <<ret, norm, trainVars>>

\* one turn of the layer loop: h, cache[e] = layer(h, mask, cache[e])
Forward_Layer ==
    /\ dpc = "layers"
    /\ fr.e <= model.n_layers
    /\ heap' = [heap EXCEPT ![fr.cache][CacheIndex(fr.e)] =
                   LayerCall(fr.e, fr.L, fr.mask, heap[fr.cache][CacheIndex(fr.e)])]
    /\ fr' = [fr EXCEPT !.e = @ + 1, !.masks = Append(@, fr.mask)]
    /\ UNCHANGED <<dpc, model, ret, norm, trainVars>>

\* out = self.norm(h) @ self.tok_embeddings.weight.T; return out, cache
Forward_Return ==
    /\ dpc = "layers"
    /\ fr.e > model.n_layers
    /\ ret' = [L |-> fr.L, given |-> fr.given, cache |-> fr.cache,
               masks |-> fr.masks, incoming |-> fr.incoming,
               out |-> rms_norm([dtype |-> model.dtype],
                                [dtype |-> model.norm_dtype, value |-> 0])]
    /\ fr' = Nil
    /\ dpc' = "returned"
    /\ UNCHANGED <<model, heap, norm, trainVars>>

\* a direct call of rms_norm(x, weight, eps)
Norm_Call ==
    /\ dpc = "new"
    /\ \E xdt \in Dtypes, wdt \in Dtypes, w \in NormWeights :
        norm' = [x |-> [dtype |-> xdt], weight |-> [dtype |-> wdt, value |-> w],
                 result |-> rms_norm([dtype |-> xdt], [dtype |-> wdt, value |-> w])]
    /\ dpc' = "normed"
    /\ UNCHANGED <<model, heap, fr, ret, trainVars>>

DecoderNext ==
    \/ Model_Init
    \/ Forward_Call
    \/ Forward_Layer
    \/ Forward_Return
    \/ Norm_Call

DecoderSpec == Init /\ [][DecoderNext]_vars

(* ------------------------------ properties ----------------------------- *)
TrainCalled == args # Nil
InEvaluateOfTrain == pc = "evaluate" /\ ev.caller = "train"
\* positions of the loop body before / after the memory check
BeforeMemory == pc \in {"step", "materialize", "record", "memory"}
AfterMemory == pc \in {"report", "eval", "evalfinish"} \/ InEvaluateOfTrain
\* positions of the loop body after the report of the step
AfterReport == pc \in {"eval", "evalfinish"} \/ InEvaluateOfTrain
KnownOptimizers == {"adam", "adamw"}

\* the losses of the steps k - rs + 1 .. k (1-indexed), from the run's history
LossWindow(k, rs) == SubSeq(lossHist, k - rs + 1, k)

\* C1: at every step n with (n + 1) % report_steps = 0 a report is emitted whose
\* mean loss is the arithmetic mean of the report_steps losses recorded since
\* the previous boundary, report_callback (if any) gets (n + 1, that mean), and
\* right after the report the loss list is empty and the token counter is 0;
\* no report is emitted at any other step.
C1_ReportMean ==
    /\ lastReport # Nil =>
        /\ lastReport.step = n + 1
        /\ lastReport.step % args.report_steps = 0
        /\ lastReport.train_loss = Mean(LossWindow(n + 1, args.report_steps))
        /\ lastReport.train_loss # NaN
        /\ IF args.report_callback
           THEN lastReportCb = [step |-> n + 1,
                                train_loss |-> Mean(LossWindow(n + 1, args.report_steps))]
           ELSE lastReportCb = Nil
        /\ pc = "eval" => losses = <<>> /\ intv_tokens = 0
    /\ AfterReport => (lastReport # Nil <=> (n + 1) % args.report_steps = 0)
    /\ TrainCalled /\ ~args.report_callback => reportCbLog = <<>>
    /\ TrainCalled /\ args.report_callback => reportCbLog = reportLog

C1_Witness ==
    /\ pc = "eval"
    /\ lastReport # Nil
    /\ args.report_steps = 2
    /\ args.report_callback
    /\ lastReport.train_loss = [num |-> 3, den |-> 2]
    /\ lastReportCb = [step |-> 2, train_loss |-> [num |-> 3, den |-> 2]]

\* the 1-indexed steps among 1 .. k at which an evaluation is due
DueEvals(k, es) ==
    LET IsDue(j) == j = 1 \/ j % es = 0
    IN SelectSeq([j \in 1 .. k |-> j], IsDue)

\* C2: the evaluations run so far are exactly those of the steps n with n = 0
\* or (n + 1) % eval_steps = 0, one per such step, each with
\* validation_samples // batch_size batches; eval_callback, when configured,
\* has been invoked once per finished evaluation with (n + 1, its loss), and
\* never otherwise.
C2_EvalCadence ==
    (TrainCalled /\ pc # "raised") =>
        LET es == args.eval_steps
            decided == IF BeforeMemory \/ pc \in {"report", "eval"}
                       THEN Len(stepLog) - 1 ELSE Len(stepLog)
            due == DueEvals(decided, es)
            running == pc = "evalfinish" \/ InEvaluateOfTrain
            finished == IF running THEN SubSeq(due, 1, Len(due) - 1) ELSE due
        IN
        /\ evalLog = [i \in 1 .. Len(due) |->
                        [step |-> due[i],
                         num_batches |-> args.validation_samples \div args.batch_size]]
        /\ evalCbLog = IF args.eval_callback THEN finished ELSE <<>>
        /\ lastEvalCb # Nil =>
              /\ args.eval_callback
              /\ lastEval # Nil
              /\ lastEvalCb = [step |-> n + 1, val_loss |-> lastEval.val_loss]
        /\ (pc \in {"loop", "done"} /\ lastEval # Nil /\ args.eval_callback) =>
              lastEvalCb # Nil

C2_Witness ==
    /\ pc = "loop"
    /\ args.eval_steps = 1
    /\ args.eval_callback
    /\ Len(evalLog) = 2
    /\ evalCbLog = <<1, 2>>
    /\ lastEvalCb # Nil

\* what the run must not have done when train() raised at set-up
NothingRan ==
    /\ iter_calls = 0
    /\ stepLog = <<>>
    /\ updates = 0
    /\ params = 0
    /\ opt_state = 0
    /\ evalLog = <<>>
    /\ reportLog = <<>>
    /\ reportCbLog = <<>>
    /\ evalCbLog = <<>>
    /\ layers_checkpointed = {}

\* C3 as stated: every optimizer_type other than "adam" / "adamw" makes train()
\* raise before anything ran.
C3_AsStated ==
    (TrainCalled /\ args.optimizer_type \notin KnownOptimizers) =>
        (pc = "raised" /\ error = "ValueError" /\ NothingRan)

\* C3: every optimizer_type that is neither "adam" nor "adamw" after
\* lower-casing makes train() raise ValueError before any batch is drawn, any
\* update, evaluation or callback happens, or any layer is marked.
C3_UnknownOptimizerRaises ==
    (TrainCalled /\ Lower(args.optimizer_type) \notin KnownOptimizers) =>
        (pc = "raised" /\ error = "ValueError" /\ NothingRan)

C3_Witness ==
    /\ pc = "raised"
    /\ args.optimizer_type = "sgdx"
    /\ args.grad_checkpoint
    /\ error = "ValueError"

ExpectedIterations ==
    IF args.iterations = 0
    THEN args.len_training \div args.batch_size
    ELSE args.iterations
ExpectedSteps == args.epochs * ExpectedIterations

\* C4 (safety part): the steps taken are n = 0, 1, 2, ... in this order, each
\* once, never more than epochs * iterations of them (iterations being
\* len(dataset_training) // batch_size when given as 0), one optimizer update
\* per step, every report, evaluation and callback carries n + 1, and when
\* train() returns exactly epochs * iterations steps were taken.
C4_Steps ==
    (TrainCalled /\ pc # "raised") =>
        /\ stepLog = [i \in 1 .. Len(stepLog) |-> i - 1]
        /\ Len(stepLog) <= ExpectedSteps
        /\ updates = IF pc = "step" THEN Len(stepLog) - 1 ELSE Len(stepLog)
        /\ params = updates
        /\ lastReport # Nil => lastReport.step = n + 1
        /\ lastReportCb # Nil => lastReportCb.step = n + 1
        /\ lastEvalCb # Nil => lastEvalCb.step = n + 1
        /\ \A i \in 1 .. Len(reportLog) : reportLog[i] \in 1 .. Len(stepLog)
        /\ \A i \in 1 .. Len(evalLog) : evalLog[i].step \in 1 .. Len(stepLog)
        /\ pc \notin {"prepare", "loop", "done"} => n = Len(stepLog) - 1
        /\ pc = "done" => Len(stepLog) = ExpectedSteps /\ updates = ExpectedSteps

\* C4: a run whose optimizer is accepted is one linear pass of exactly
\* epochs * iterations steps (C4_Steps) and, unless a step raises, then
\* reaches its terminal state.
C4_LinearPass ==
    /\ []C4_Steps
    /\ (pc = "prepare") ~> (pc = "done" \/ error \in StepErrors)

C4_Witness ==
    /\ pc = "done"
    /\ args.iterations = 0
    /\ args.batch_size = 2
    /\ args.epochs = 2
    /\ stepLog = <<0, 1>>
    /\ updates = 2

\* C5: evaluate() leaves TrainingState as it found it: while it runs and when
\* it returns, the model parameters, the optimizer state and the number of
\* optimizer updates are those of its entry, whoever called it.
C5_EvaluateReadOnly ==
    /\ pc = "evaluate" =>
        /\ params = ev.params_before
        /\ opt_state = ev.opt_before
        /\ updates = ev.updates_before
    /\ lastEval # Nil =>
        /\ lastEval.params_after = lastEval.params_before
        /\ lastEval.opt_after = lastEval.opt_before
        /\ lastEval.updates_after = lastEval.updates_before
        /\ pc \in {"evalfinish", "evaluated"} =>
              params = lastEval.params_before /\ opt_state = lastEval.opt_before

C5_Witness ==
    /\ pc = "evalfinish"
    /\ lastEval # Nil
    /\ lastEval.caller = "train"
    /\ lastEval.drawn >= 1
    /\ lastEval.params_before = 2
    /\ lastEval.params_after = 2

\* C6 as stated: evaluate() draws exactly num_batches batches, computes the loss
\* once on each and returns the mean of those num_batches losses, whatever the
\* dataset yields.
C6_AsStated ==
    lastEval # Nil =>
        /\ lastEval.drawn = lastEval.num_batches
        /\ lastEval.loss_calls = lastEval.num_batches
        /\ lastEval.val_loss = Frac(SumSeq(lastEval.returned), lastEval.num_batches)

\* C6: evaluate() draws exactly min(num_batches, batches the dataset's
\* iteration yields) batches, computes the loss once on each, and returns the
\* arithmetic mean of those losses; when no batch is drawn the result is nan.
C6_EvaluateMean ==
    lastEval # Nil =>
        LET k == Min(lastEval.num_batches, lastEval.avail) IN
        /\ lastEval.drawn = k
        /\ lastEval.loss_calls = k
        /\ Len(lastEval.returned) = k
        /\ lastEval.val_loss = IF k = 0 THEN NaN
                               ELSE Frac(SumSeq(lastEval.returned), k)

C6_Witness ==
    /\ lastEval # Nil
    /\ lastEval.avail < lastEval.num_batches
    /\ lastEval.drawn = lastEval.avail
    /\ lastEval.drawn = 2
    /\ lastEval.val_loss = [num |-> 3, den |-> 2]

RECURSIVE TrainTime(_)
\* wall time spent in the training work of the steps in S (0-indexed)
TrainTime(S) ==
    IF S = {} THEN 0
    ELSE LET k == CHOOSE x \in S : TRUE
         IN (stepEnd[k + 1] - stepBegin[k + 1]) + TrainTime(S \ {k})

\* the steps whose training work lies inside the timed interval of report r
TimedSteps(r) ==
    {k \in 0 .. Len(stepEnd) - 1 :
        r.start <= stepBegin[k + 1] /\ stepEnd[k + 1] <= r.stop}

\* C7: at every report the interval timer covers the steps the token counter
\* covers: the elapsed time is the training time of exactly those steps and
\* tok/sec is their token count over that time.
C7_TimerCoversTokenSteps ==
    lastReport # Nil =>
        /\ TimedSteps(lastReport) = lastReport.tokSteps
        /\ lastReport.stop - lastReport.start = TrainTime(lastReport.tokSteps)
        /\ lastReport.tok_per_sec =
              Frac(lastReport.tokens, TrainTime(lastReport.tokSteps))

\* C8: one batch is drawn per step and step n gets the (n + 1)-th batch of one
\* training-mode batch sequence.
C8_ConsecutiveBatches ==
    /\ Len(batchLog) = Len(stepLog)
    /\ \A k \in 1 .. Len(batchLog) : batchLog[k] = [gen |-> 1, pos |-> k - 1]

\* C9: in every step the high-memory warning is emitted once when the peak
\* measured is above 0.9 of the system memory and not at all otherwise, the
\* peak counter is reset exactly once, and the step goes on either way: its
\* update is applied, its loss recorded and nothing is raised.
C9_MemoryWarning ==
    /\ BeforeMemory => stepWarns = 0 /\ stepResets = 0
    /\ AfterMemory =>
        /\ stepResets = 1
        /\ stepWarns = IF 10 * peak_memory > 9 * SystemMemory THEN 1 ELSE 0
        /\ error = None
        /\ Len(lossHist) = n + 1
        /\ updates = n + 1
    /\ pc = "report" => metal_peak = 0 /\ ENABLED (Report \/ Report_Skip)

C9_Witness ==
    /\ pc = "report"
    /\ Len(stepLog) = 2
    /\ peak_memory = 95
    /\ stepWarns = 1
    /\ stepResets = 1

\* C10: with grad_checkpoint and without compiled_step, train() raises only for
\* an unknown optimizer; otherwise it warns once, marks every layer before the
\* first batch is drawn, and every step runs through the compiled closure.
C10_CheckpointForcesCompiled ==
    (TrainCalled /\ args.grad_checkpoint /\ ~args.compiled_step) =>
        /\ error = "ValueError" => Lower(args.optimizer_type) \notin KnownOptimizers
        /\ (pc # "prepare" /\ error # "ValueError") =>
              /\ warnings = 1
              /\ compiled_step
              /\ step_defined
              /\ layers_checkpointed = Layers
        /\ (pc = "prepare" \/ error = "ValueError") => iter_calls = 0
        /\ \A i \in 1 .. Len(pathLog) : pathLog[i] = "compiled"
        /\ pc = "done" => Len(pathLog) = ExpectedSteps

C10_Witness ==
    /\ pc = "done"
    /\ args.grad_checkpoint
    /\ ~args.compiled_step
    /\ warnings = 1
    /\ pathLog = <<"compiled", "compiled">>

\* C14: when a capability of step n raises, train() ends there with the
\* exception: no loss is recorded for step n, no report, evaluation or
\* callback carries n + 1 or more, no batch after step n's was drawn, the
\* updates of the steps before n are in place, and nothing runs afterwards.
C14_RaisePropagates ==
    error \in StepErrors =>
        /\ pc = "raised"
        /\ ~ENABLED Next
        /\ Len(lossHist) = n
        /\ Len(losses) <= n
        /\ \A i \in 1 .. Len(reportLog) : reportLog[i] <= n
        /\ \A i \in 1 .. Len(reportCbLog) : reportCbLog[i] <= n
        /\ \A i \in 1 .. Len(evalLog) : evalLog[i].step <= n
        /\ \A i \in 1 .. Len(evalCbLog) : evalCbLog[i] <= n
        /\ lastReport = Nil /\ lastReportCb = Nil /\ lastEval = Nil /\ lastEvalCb = Nil
        /\ iter_calls = n + 1
        /\ Len(batchLog) = n + 1
        /\ stepLog = [i \in 1 .. n + 1 |-> i - 1]
        /\ updates = n
        /\ params = n
        /\ opt_state = n

C14_Witness ==
    /\ error = "UpdateError"
    /\ pc = "raised"
    /\ n = 1
    /\ params = 1
    /\ reportLog = <<1>>
    /\ reportCbLog = <<1>>
    /\ Len(evalLog) = 1
    /\ Len(lossHist) = 1

\* the first k events of a step, up to the reset of the peak counter
StepEvents(k) ==
    SubSeq(<<"draw", "grad", "update", "materialize", "extract", "memory",
             "peak_reset">>, 1, k)
\* the report's events at step n
ReportEvents ==
    IF (n + 1) % args.report_steps # 0 THEN <<>>
    ELSE IF args.report_callback THEN <<"report", "report_cb">> ELSE <<"report">>
\* the evaluation's events at step n
EvalEvents ==
    IF ~(n = 0 \/ (n + 1) % args.eval_steps = 0) THEN <<>>
    ELSE IF args.eval_callback THEN <<"eval", "eval_cb">> ELSE <<"eval">>

\* C16: on either path a step's events are, in this order: the batch draw,
\* the gradient, the optimizer update, the forced materialization, the
\* extraction of the scalars, the memory check and the peak reset, the
\* report with report_callback, the evaluation with eval_callback; no scalar
\* is extracted before the materialization, which follows the update of the
\* same step, and report_callback comes before eval_callback.
C16_EventOrder ==
    /\ pc = "step" => events = StepEvents(1)
    /\ (pc = "raised" /\ error \in StepErrors) => events = StepEvents(1)
    /\ pc = "materialize" => events = StepEvents(3) /\ updates = n + 1
    /\ pc = "record" => events = StepEvents(4) /\ updates = n + 1 /\ result # Lazy
    /\ pc = "memory" => events = StepEvents(5)
    /\ pc = "report" => events = StepEvents(7)
    /\ pc = "eval" => events = StepEvents(7) \o ReportEvents
    /\ (InEvaluateOfTrain \/ pc = "evalfinish") =>
           events = StepEvents(7) \o ReportEvents \o <<"eval">>
    /\ (pc \in {"loop", "done"} /\ stepLog # <<>>) =>
           events = StepEvents(7) \o ReportEvents \o EvalEvents
    /\ \A i \in 1 .. Len(pathLog) : pathLog[i] \in {"compiled", "eager"}

C16_Witness ==
    /\ pc = "loop"
    /\ n = 1
    /\ pathLog = <<"eager", "eager">>
    /\ events = <<"draw", "grad", "update", "materialize", "extract", "memory",
                  "peak_reset", "report", "report_cb", "eval", "eval_cb">>

\* the reward vectors among the rewards of the steps from .. to (1-indexed)
RECURSIVE RewardRows(_, _)
RewardRows(from, to) ==
    IF from > to THEN <<>>
    ELSE IF rewardHist[to] = Nil THEN RewardRows(from, to - 1)
    ELSE Append(RewardRows(from, to - 1), rewardHist[to].v)
\* the vector of the means of the columns of a non-empty sequence of rows
ColumnMeans(rows) ==
    [d \in 1 .. Len(rows[1]) |-> Mean([k \in 1 .. Len(rows) |-> rows[k][d]])]
\* the 1-indexed step of the last report, 0 when there was none
LastReported == IF reportLog = <<>> THEN 0 ELSE reportLog[Len(reportLog)]

\* C17: after each step the reward accumulator holds the reward vectors of
\* the steps since the last report that had a reward, one row each, in
\* order; a report over k >= 1 such vectors emits the vector of their
\* per-dimension means, one entry per dimension, also for k = 1, and empties
\* the accumulator; a report over none emits no reward.
C17_RewardMean ==
    /\ pc \in {"memory", "report"} =>
           LET rows == RewardRows(LastReported + 1, Len(rewardHist))
           IN  IF rows = <<>> THEN rewards = Nil ELSE rewards.rows = rows
    /\ lastReport # Nil =>
           LET rows == RewardRows(lastReport.step - args.report_steps + 1,
                                  lastReport.step)
           IN  /\ rewards = Nil
               /\ IF rows = <<>> THEN lastReport.reward = Nil
                  ELSE lastReport.reward = [ndim |-> 1, v |-> ColumnMeans(rows)]

\* C18: the peak compared with the threshold at step n is the memory taken
\* by step n's own training work; neither an earlier step nor an evaluation
\* run at step n - 1 adds to it or causes a warning at step n.
C18_PerStepPeak ==
    AfterMemory =>
        /\ peak_memory = stepMem
        /\ stepWarns = IF HighMemory(stepMem, SystemMemory) THEN 1 ELSE 0

\* the positions of the loop at which step n is over
StepOver ==
    \/ pc \in {"eval", "evalfinish"}
    \/ InEvaluateOfTrain
    \/ pc \in {"loop", "done"} /\ stepLog # <<>>

\* C19: when step n is over the loss accumulator holds the losses of the
\* last (n + 1) % report_steps steps; the reports are report_steps steps
\* apart, so no loss is in two reported means; at termination the losses of
\* the last (epochs * iterations) % report_steps steps are in the
\* accumulator and no report or report_callback has covered them.
C19_LossWindow ==
    /\ StepOver =>
           /\ Len(lossHist) = n + 1
           /\ losses = LossWindow(n + 1, (n + 1) % args.report_steps)
           /\ reportLog = [i \in 1 .. (n + 1) \div args.report_steps |->
                              i * args.report_steps]
           /\ args.report_callback => reportCbLog = reportLog
    /\ pc = "done" =>
           LET left == ExpectedSteps % args.report_steps
           IN  /\ losses = SubSeq(lossHist, ExpectedSteps - left + 1, ExpectedSteps)
               /\ Len(losses) = left
               /\ \A i \in 1 .. Len(reportLog) : reportLog[i] <= ExpectedSteps - left
               /\ \A i \in 1 .. Len(reportCbLog) : reportCbLog[i] <= ExpectedSteps - left

C19_Witness ==
    /\ pc = "done"
    /\ ExpectedSteps = 3
    /\ args.report_steps = 2
    /\ args.report_callback
    /\ lossHist = <<1, 2, 1>>
    /\ losses = <<1>>
    /\ reportLog = <<2>>
    /\ reportCbLog = <<2>>

(* ------------------------- properties: decoder ------------------------- *)
\* the layer indices 1 .. n_layers of the constructed model
ModelLayers == IF model = Nil THEN {} ELSE 1 .. model.n_layers
\* entry new is entry old after one more pass of layer i over L positions
ProducedBy(new, old, i, L) ==
    /\ new # Nil
    /\ new.by = (IF old = Nil THEN <<>> ELSE old.by) \o <<i>>
    /\ \A k \in 1 .. Len(new.by) : new.by[k] = i
    /\ Len(new.keys) = Len(CachedKeys(old)) + L
    /\ SubSeq(new.keys, 1, Len(CachedKeys(old))) = CachedKeys(old)

\* C11: every cache has one entry per layer; when a forward pass returns,
\* entry i of the returned cache is what layer i produced from incoming entry
\* i and from no other index; a cache the caller passed is updated in place
\* and is the sequence returned; without a cache the pass starts from
\* n_layers empty placeholders.
C11_CacheAligned ==
    /\ \A c \in 1 .. Len(heap) : Len(heap[c]) = model.n_layers
    /\ dpc = "layers" =>
        \A i \in ModelLayers :
            IF i < fr.e
            THEN ProducedBy(heap[fr.cache][i], fr.incoming[i], i, fr.L)
            ELSE heap[fr.cache][i] = fr.incoming[i]
    /\ dpc = "returned" =>
        /\ \A i \in ModelLayers :
               ProducedBy(heap[ret.cache][i], ret.incoming[i], i, ret.L)
        /\ ret.given # 0 => ret.cache = ret.given
        /\ ret.given = 0 => ret.incoming = [i \in ModelLayers |-> Nil]

C11_Witness ==
    /\ dpc = "returned"
    /\ model.n_layers = 2
    /\ ret.given # 0
    /\ ret.incoming[2] # Nil
    /\ heap[ret.given][1].by = <<1, 1>>
    /\ heap[ret.given][2].by = <<2, 2>>
    /\ heap[ret.given][2].keys = <<0, 1, 2>>

\* the cache entries of layer i that exist
Entries(i) == {heap[c][i] : c \in 1 .. Len(heap)} \ {Nil}

\* C12: a sequence fed as single tokens, each call given the cache the call
\* before returned, ends with every position i attending, in every layer,
\* to the positions 0 .. i, which is what one call on the whole sequence
\* without a cache gives: two caches that hold the same number of positions
\* agree on the positions attended, however the calls were split.
C12_CacheRoundTrip ==
    \A i \in ModelLayers :
        /\ \A c \in Entries(i) :
               \A p \in 1 .. Len(c.keys) :
                   c.keys[p] = p - 1 /\ c.att[p] = 0 .. (p - 1)
        /\ \A c1, c2 \in Entries(i) :
               Len(c1.keys) = Len(c2.keys) => c1.att = c2.att

C12_Witness ==
    /\ dpc = "returned"
    /\ model.n_layers = 2
    /\ \E c1, c2 \in Entries(2) :
        /\ c1.by = <<2, 2, 2>>
        /\ c2.by = <<2>>
        /\ c1.att = <<{0}, {0, 1}, {0, 1, 2}>>
        /\ c2.att = c1.att

\* mask m forbids nothing but the later positions of a sequence of length L
IsCausal(m, L) ==
    /\ m # Nil
    /\ m.size = L
    /\ \A i, j \in 1 .. L :
           IF j > i THEN m.m[i][j] < 0 ELSE m.m[i][j] = 0

\* the masks the layers of a forward pass over L positions were handed
MasksFor(masks, L) ==
    \A k \in 1 .. Len(masks) :
        IF L = 1 THEN masks[k] = Nil
        ELSE IsCausal(masks[k], L) /\ masks[k] = masks[1]

\* C13: a forward pass over one position hands no mask to any layer; over
\* L > 1 positions it hands every layer the same additive causal mask of
\* size L, in which position i may not attend to a position j > i and may
\* attend to every position j <= i.
C13_CausalMask ==
    /\ dpc = "layers" => Len(fr.masks) = fr.e - 1 /\ MasksFor(fr.masks, fr.L)
    /\ dpc = "returned" =>
           Len(ret.masks) = model.n_layers /\ MasksFor(ret.masks, ret.L)

C13_Witness ==
    /\ dpc = "returned"
    /\ model.n_layers = 2
    /\ ret.L = 3
    /\ ret.masks[1] = ret.masks[2]
    /\ ret.masks[2].m = <<<<0, MaskValue, MaskValue>>, <<0, 0, MaskValue>>, <<0, 0, 0>>>>

\* C15: rms_norm computes in float32 and returns a result of the dtype of
\* the tensor it was given, whatever the dtypes of input and weight are; with
\* a zero weight the scale applied is exactly 1.
C15_ResultPrecision ==
    norm # Nil =>
        /\ norm.result.compute = "float32"
        /\ norm.result.dtype = norm.x.dtype
        /\ norm.weight.value = 0 => norm.result.scale = 1

====
